---- MODULE Spec2Model ----
(***************************************************************************)
(* Model of augment(folder_path, quantity) of remx/pre-processing-01.ipynb *)
(* A file or directory name is a sequence of characters (a run of ordinary *)
(* characters is kept as one element, the dot is an element of its own),   *)
(* a path is a sequence of names below folder_path, and the file system is *)
(* a set of directories and a map from file paths to contents.             *)
(***************************************************************************)
EXTENDS Integers, Sequences, FiniteSets, TLC

\* ---------------------------------------------------------------- bounds
MaxFiles == 2
MaxQuantity == 2
MaxRuns == 2

\* ----------------------------------------------------------------- names
DOT == "."
AUG == <<"augmented">>
DirA == <<"a">>
DirB == <<"b">>
DirX == <<"x">>
CatJpg == <<"cat", DOT, "jpg">>
DogPng == <<"dog", DOT, "png">>
ImgPhotoPng == <<"img", DOT, "photo", DOT, "png">>
CatJpgPng == <<"cat", DOT, "jpg", DOT, "png">>
PicJpeg == <<"pic", DOT, "jpeg">>
NamePool == {CatJpg, ImgPhotoPng, CatJpgPng, PicJpeg}

Orig == [src |-> <<>>, run |-> 0]
FolderPath == <<>>

\* ------------------------------------------------------------ path, os.*
Join(path, name) == Append(path, name)
Parent(path) == SubSeq(path, 1, Len(path) - 1)
Basename(path) == path[Len(path)]

ListDir(ds, fs, path) ==
    {Basename(p) : p \in {q \in ds \cup DOMAIN fs : Len(q) > 0 /\ Parent(q) = path}}

\* os.scandir returns the entries in the order the directory stores them;
\* ScanOrder is that order for the directory names of the trees below
ScanOrder == <<DirA, AUG, DirB, DirX>>

SubdirNames(ds, path) ==
    SelectSeq(ScanOrder, LAMBDA n : Join(path, n) \in ds)

\* --------------------------------------------------------- str functions
EndsWith(s, suffix) ==
    /\ Len(s) >= Len(suffix)
    /\ SubSeq(s, Len(s) - Len(suffix) + 1, Len(s)) = suffix

RECURSIVE SplitFrom(_, _, _, _)
SplitFrom(s, i, cur, acc) ==
    IF i > Len(s) THEN Append(acc, cur)
    ELSE IF s[i] = DOT THEN SplitFrom(s, i + 1, <<>>, Append(acc, cur))
    ELSE SplitFrom(s, i + 1, Append(cur, s[i]), acc)

Split(s) == SplitFrom(s, 1, <<>>, <<>>)

Min(a, b) == IF a < b THEN a ELSE b

\* --------------------------------------------------- pieces of augment()
IsSourceDir_NoGuard(dirname) == TRUE
IsSourceDir(dirname) == dirname # AUG

NestedFolderPath(folder_path, dirpath, dirname) == Join(folder_path, dirname)

SampleSize_All(q, n) == n
SampleSize(q, n) == Min(q, n)

Samples(entries, k) == {s \in SUBSET entries : Cardinality(s) = k}

IsImageName_AnyDot(filename) ==
    \E i \in 1..Len(filename) : filename[i] = DOT
IsImageName(filename) ==
    EndsWith(filename, <<DOT, "jpg">>) \/ EndsWith(filename, <<DOT, "png">>)

NeedMakeDirs(ds, output_dir) == output_dir \notin ds

OutputName_LastSegment(filename) ==
    Split(filename)[1] \o <<"-aug", DOT>> \o Split(filename)[Len(Split(filename))]
OutputName(filename) ==
    Split(filename)[1] \o <<"-aug", DOT>> \o Split(filename)[2]

OutputPath(output_dir, filename) == Join(output_dir, OutputName(filename))

\* cv2.imread never raises: it returns an image or None
ImreadResults == {"img", "None"}

\* the transform pipeline raises on a None image and may raise on any image
TransformOutcomes(img) == IF img = "None" THEN {"raise"} ELSE {"ok", "raise"}

\* cv2.imwrite picks the encoder from the text after the last dot; it raises
\* when there is none for it, and otherwise writes, returns False or raises
WriterExts == {<<"jpg">>, <<"png">>}
ImwriteOutcomes(name) ==
    IF Split(name)[Len(Split(name))] \in WriterExts
    THEN {"ok", "false", "raise"}
    ELSE {"nowriter"}

\* ------------------------------------------------------- initial trees
FileSets == {s \in SUBSET NamePool : Cardinality(s) <= MaxFiles}
SubdirSets == {{}, {DirX}, {DirB}, {AUG}}

TreeDirs(aSubs, hasB, hasAug) ==
    {<<>>, <<DirA>>} \cup {<<DirA, s>> : s \in aSubs}
      \cup (IF hasB THEN {<<DirB>>} ELSE {})
      \cup (IF hasAug THEN {<<AUG>>} ELSE {})

TreeFiles(aFiles, aSubs, hasB, hasAug) ==
    {<<DirA, f>> : f \in aFiles}
      \cup (IF AUG \in aSubs THEN {<<DirA, AUG, DogPng>>} ELSE {})
      \cup (IF hasB THEN {<<DirB, CatJpg>>} ELSE {})
      \cup (IF hasAug THEN {<<AUG, CatJpg>>} ELSE {})

Trees ==
    {[dirs |-> {}, files |-> {}]} \cup
    {[dirs |-> TreeDirs(s, b, g), files |-> TreeFiles(f, s, b, g)] :
        f \in FileSets, s \in SubdirSets, b \in BOOLEAN, g \in BOOLEAN}

VARIABLES tree0, dirs, files, quantity, run, prevDone, pc, error, failed,
          stack, dirpath, dirnames, nested, sample, filename, img,
          output_path, listed, reads, writes

vars == <<tree0, dirs, files, quantity, run, prevDone, pc, error, failed,
          stack, dirpath, dirnames, nested, sample, filename, img,
          output_path, listed, reads, writes>>

fsVars == <<dirs, files>>
argVars == <<tree0, quantity, run, prevDone>>
walkVars == <<stack, dirpath, dirnames>>
bodyVars == <<nested, sample, filename, img, output_path>>
histVars == <<listed, reads, writes>>

Init ==
    /\ tree0 \in Trees
    /\ dirs = tree0.dirs
    /\ files = [p \in tree0.files |-> Orig]
    /\ quantity \in 0..MaxQuantity
    /\ run = 1
    /\ prevDone = FALSE
    /\ pc = "walk"
    /\ error = "none"
    /\ failed = FALSE
    /\ stack = <<FolderPath>>
    /\ dirpath = <<>>
    /\ dirnames = <<>>
    /\ nested = <<>>
    /\ sample = {}
    /\ filename = <<>>
    /\ img = "unset"
    /\ output_path = <<>>
    /\ listed = <<>>
    /\ reads = <<>>
    /\ writes = <<>>

Raise_Caught(kind) ==
    /\ pc' = "dirloop"
    /\ error' = kind
    /\ failed' = TRUE

\* no try/except anywhere in augment: an exception leaves the function
Raise(kind) ==
    /\ pc' = "aborted"
    /\ error' = kind
    /\ failed' = TRUE

RECURSIVE Paths(_, _)
Paths(path, names) ==
    IF names = <<>> THEN <<>>
    ELSE <<Join(path, Head(names))>> \o Paths(path, Tail(names))

\* os.walk is exhausted: the for loop of line 49 ends and augment returns
WalkStop ==
    /\ pc = "walk"
    /\ stack = <<>>
    /\ pc' = "done"
    /\ UNCHANGED <<fsVars, argVars, error, failed, walkVars, bodyVars, histVars>>

\* os.walk reaches a directory it cannot scan: the error is ignored
\* (onerror is None) and nothing is yielded for it
WalkMissing ==
    /\ pc = "walk"
    /\ stack # <<>>
    /\ Head(stack) \notin dirs
    /\ stack' = Tail(stack)
    /\ failed' = TRUE
    /\ UNCHANGED <<fsVars, argVars, pc, error, dirpath, dirnames,
                   bodyVars, histVars>>

\* os.walk scans the next directory, top-down, and yields it
WalkYield ==
    /\ pc = "walk"
    /\ stack # <<>>
    /\ Head(stack) \in dirs
    /\ dirpath' = Head(stack)
    /\ dirnames' = SubdirNames(dirs, Head(stack))
    /\ stack' = Paths(Head(stack), SubdirNames(dirs, Head(stack))) \o Tail(stack)
    /\ pc' = "dirloop"
    /\ UNCHANGED <<fsVars, argVars, error, failed, bodyVars, histVars>>

\* for dirname in dirnames: all done
DirEnd ==
    /\ pc = "dirloop"
    /\ dirnames = <<>>
    /\ pc' = "walk"
    /\ UNCHANGED <<fsVars, argVars, error, failed, walkVars, bodyVars, histVars>>

\* for dirname in dirnames: the else branch, continue
DirSkip ==
    /\ pc = "dirloop"
    /\ dirnames # <<>>
    /\ ~IsSourceDir(Head(dirnames))
    /\ dirnames' = Tail(dirnames)
    /\ UNCHANGED <<fsVars, argVars, pc, error, failed, stack, dirpath,
                   bodyVars, histVars>>

\* os.listdir of a path that is no directory raises
DirListFail ==
    /\ pc = "dirloop"
    /\ dirnames # <<>>
    /\ IsSourceDir(Head(dirnames))
    /\ NestedFolderPath(FolderPath, dirpath, Head(dirnames)) \notin dirs
    /\ dirnames' = Tail(dirnames)
    /\ nested' = NestedFolderPath(FolderPath, dirpath, Head(dirnames))
    /\ Raise("FileNotFoundError")
    /\ UNCHANGED <<fsVars, argVars, stack, dirpath, sample, filename, img,
                   output_path, histVars>>

\* files = os.listdir(...); np.random.choice(files, min(...), replace=False)
DirList ==
    /\ pc = "dirloop"
    /\ dirnames # <<>>
    /\ LET dirname == Head(dirnames)
           path == NestedFolderPath(FolderPath, dirpath, dirname)
           entries == ListDir(dirs, files, path)
       IN /\ IsSourceDir(dirname)
          /\ path \in dirs
          /\ dirnames' = Tail(dirnames)
          /\ nested' = path
          /\ \E s \in Samples(entries, SampleSize(quantity, Cardinality(entries))) :
                /\ sample' = s
                /\ listed' = Append(listed, [dirpath |-> dirpath, dirname |-> dirname,
                                             path |-> path, sample |-> s])
    /\ pc' = "sampleloop"
    /\ UNCHANGED <<fsVars, argVars, error, failed, stack, dirpath, filename, img,
                   output_path, reads, writes>>

\* for filename in <sample>: all done
SampleEnd ==
    /\ pc = "sampleloop"
    /\ sample = {}
    /\ pc' = "dirloop"
    /\ UNCHANGED <<fsVars, argVars, error, failed, walkVars, bodyVars, histVars>>

\* for filename in <sample>: the suffix test fails, next entry
SampleSkip ==
    /\ pc = "sampleloop"
    /\ \E f \in sample :
          /\ ~IsImageName(f)
          /\ sample' = sample \ {f}
          /\ filename' = f
    /\ UNCHANGED <<fsVars, argVars, pc, error, failed, walkVars, nested, img,
                   output_path, histVars>>

\* for filename in <sample>: the suffix test passes; img = cv2.imread(image)
ImRead ==
    /\ pc = "sampleloop"
    /\ \E f \in sample :
          /\ IsImageName(f)
          /\ sample' = sample \ {f}
          /\ filename' = f
          /\ reads' = Append(reads, Join(nested, f))
    /\ \E r \in ImreadResults :
          /\ img' = r
          /\ failed' = (failed \/ r = "None")
    /\ pc' = "mkdir"
    /\ UNCHANGED <<fsVars, argVars, error, walkVars, nested, output_path,
                   listed, writes>>

\* if not os.path.exists(output_dir): os.makedirs(output_dir)
MakeDirs ==
    /\ pc = "mkdir"
    /\ LET output_dir == Join(nested, AUG) IN
          IF NeedMakeDirs(dirs, output_dir)
          THEN IF output_dir \in dirs
               THEN Raise("FileExistsError") /\ dirs' = dirs
               ELSE /\ dirs' = dirs \cup {output_dir}
                    /\ pc' = "transform"
                    /\ UNCHANGED <<error, failed>>
          ELSE /\ pc' = "transform"
               /\ UNCHANGED <<dirs, error, failed>>
    /\ UNCHANGED <<files, argVars, walkVars, bodyVars, histVars>>

\* output_path = ...; augmented_img = augmentation_transforms()(image=img)["image"]
Transform ==
    /\ pc = "transform"
    /\ output_path' = OutputPath(Join(nested, AUG), filename)
    /\ \E o \in TransformOutcomes(img) :
          IF o = "raise"
          THEN Raise("TransformError")
          ELSE pc' = "imwrite" /\ UNCHANGED <<error, failed>>
    /\ UNCHANGED <<fsVars, argVars, walkVars, nested, sample, filename, img,
                   histVars>>

\* cv2.imwrite(output_path, augmented_img); the returned flag is dropped
ImWrite ==
    /\ pc = "imwrite"
    /\ \E o \in ImwriteOutcomes(Basename(output_path)) :
          CASE o = "ok" ->
                 /\ files' = [p \in DOMAIN files \cup {output_path} |->
                                 IF p = output_path
                                 THEN [src |-> Join(nested, filename), run |-> run]
                                 ELSE files[p]]
                 /\ writes' = Append(writes, [src |-> Join(nested, filename),
                                              out |-> output_path])
                 /\ pc' = "sampleloop"
                 /\ UNCHANGED <<error, failed>>
            [] o = "false" ->
                 /\ failed' = TRUE
                 /\ pc' = "sampleloop"
                 /\ UNCHANGED <<files, writes, error>>
            [] o = "raise" ->
                 /\ Raise("WriteError")
                 /\ UNCHANGED <<files, writes>>
            [] o = "nowriter" ->
                 /\ Raise("NoWriterError")
                 /\ UNCHANGED <<files, writes>>
    /\ UNCHANGED <<dirs, argVars, walkVars, bodyVars, listed, reads>>

\* augment(folder_path, quantity) is called again on the tree the run left
Rerun ==
    /\ pc \in {"done", "aborted"}
    /\ run < MaxRuns
    /\ run' = run + 1
    /\ prevDone' = (pc = "done")
    /\ pc' = "walk"
    /\ error' = "none"
    /\ failed' = FALSE
    /\ stack' = <<FolderPath>>
    /\ dirpath' = <<>>
    /\ dirnames' = <<>>
    /\ nested' = <<>>
    /\ sample' = {}
    /\ filename' = <<>>
    /\ img' = "unset"
    /\ output_path' = <<>>
    /\ listed' = <<>>
    /\ reads' = <<>>
    /\ writes' = <<>>
    /\ UNCHANGED <<fsVars, tree0, quantity>>

Next ==
    \/ WalkStop
    \/ WalkMissing
    \/ WalkYield
    \/ DirEnd
    \/ DirSkip
    \/ DirListFail
    \/ DirList
    \/ SampleEnd
    \/ SampleSkip
    \/ ImRead
    \/ MakeDirs
    \/ Transform
    \/ ImWrite
    \/ Rerun

Spec == Init /\ [][Next]_vars

TypeOK ==
    /\ pc \in {"walk", "dirloop", "sampleloop", "mkdir", "transform", "imwrite",
               "done", "aborted"}
    /\ quantity \in 0..MaxQuantity
    /\ run \in 1..MaxRuns

\* ------------------------------------------------- vocabulary of the claims
HasImageSuffix(name) ==
    /\ Len(name) >= 2
    /\ name[Len(name) - 1] = DOT
    /\ name[Len(name)] \in {"jpg", "png"}

Eligible(path) == {f \in ListDir(dirs, files, path) : HasImageSuffix(f)}

ListedOnce(path) == Cardinality({i \in DOMAIN listed : listed[i].path = path}) = 1

ReadsIn(path) == {i \in DOMAIN reads : Parent(reads[i]) = path}

FirstDot(name) ==
    CHOOSE i \in 1..Len(name) : name[i] = DOT /\ \A j \in 1..(i - 1) : name[j] # DOT

BeforeFirstDot(name) == SubSeq(name, 1, FirstDot(name) - 1)

AfterFirstDot(name) == SubSeq(name, FirstDot(name) + 1, Len(name))

UpToNextDot(rest) ==
    IF \E i \in 1..Len(rest) : rest[i] = DOT
    THEN SubSeq(rest, 1, FirstDot(rest) - 1)
    ELSE rest

Stem(name) == SubSeq(name, 1, Len(name) - 2)

Extension(name) == <<name[Len(name)]>>

EnvironmentErrors == {"TransformError", "WriteError"}

Events == <<listed, reads, writes>>

\* C1: when a run has completed, every folder it listed (once) that holds at
\* least `quantity` eligible images had exactly `quantity` distinct images of
\* it processed, whatever else the folder holds and whatever the sample drew.
C1_ExactlyQuantity ==
    pc = "done" =>
      \A i \in DOMAIN listed :
        LET f == listed[i].path IN
          (ListedOnce(f) /\ Cardinality(Eligible(f)) >= quantity) =>
             /\ Cardinality(ReadsIn(f)) = quantity
             /\ Cardinality({reads[k] : k \in ReadsIn(f)}) = quantity

\* C2: when a run has completed, every folder it listed (once) that holds
\* fewer than `quantity` eligible images had each of its eligible images
\* processed exactly once.
C2_AllProcessedOnce ==
    pc = "done" =>
      \A i \in DOMAIN listed :
        LET f == listed[i].path IN
          (ListedOnce(f) /\ Cardinality(Eligible(f)) < quantity) =>
             \A e \in Eligible(f) :
                Cardinality({k \in DOMAIN reads : reads[k] = Join(f, e)}) = 1

\* C3: with quantity = 0 no output file is written and no `augmented`
\* directory is created: the file system stays the one the run started on.
C3_ZeroQuantity ==
    quantity = 0 =>
      /\ dirs = tree0.dirs
      /\ DOMAIN files = tree0.files
      /\ \A p \in DOMAIN files : files[p] = Orig
      /\ reads = <<>>
      /\ writes = <<>>

C3_Witness ==
    /\ quantity = 0
    /\ pc = "done"
    /\ \E i \in DOMAIN listed : Eligible(listed[i].path) # {}

\* C4: a directory named `augmented` is never listed for sampling, and no
\* file below a directory of that name is ever read as an input image or is
\* the source of an output file, wherever the directory is and whether it
\* was there before the run or created during it.
C4_AugmentedNeverSource ==
    /\ \A i \in DOMAIN listed : Basename(listed[i].path) # AUG
    /\ \A i \in DOMAIN reads :
          \A k \in 1..(Len(reads[i]) - 1) : reads[i][k] # AUG
    /\ \A p \in DOMAIN files :
          \A k \in 1..(Len(files[p].src) - 1) : files[p].src[k] # AUG

C4_Witness ==
    /\ pc = "done"
    /\ <<AUG>> \in tree0.dirs
    /\ <<DirA, AUG>> \in dirs \ tree0.dirs
    /\ <<DirA, AUG, DogPng>> \notin DOMAIN files
    /\ writes # <<>>

\* C5: every output file written is named <stem>-aug.<ext> with the stem and
\* the extension of its source, lies in <category folder>/augmented/, and no
\* two distinct source images are written to the same output path.
C5_OutputDerivedFromOneSource ==
    \A i \in DOMAIN writes :
      LET w == writes[i]
          name == Basename(w.src)
      IN /\ Basename(w.out) = Stem(name) \o <<"-aug", DOT>> \o Extension(name)
         /\ Parent(w.out) = Join(Parent(w.src), AUG)
         /\ \A j \in DOMAIN writes : writes[j].src # w.src => writes[j].out # w.out

\* C6: the output filename is the text before the first dot of the source
\* filename, then `-aug.`, then the text between the first dot and the next
\* one: cat.jpg gives cat-aug.jpg and img.photo.png gives img-aug.photo.
C6_SplitOnFirstDot ==
    pc = "imwrite" =>
      /\ Basename(output_path) =
            BeforeFirstDot(filename) \o <<"-aug", DOT>>
              \o UpToNextDot(AfterFirstDot(filename))
      /\ filename = CatJpg => Basename(output_path) = <<"cat", "-aug", DOT, "jpg">>
      /\ filename = ImgPhotoPng =>
            Basename(output_path) = <<"img", "-aug", DOT, "photo">>

C6_Witness ==
    /\ pc = "imwrite"
    /\ filename = ImgPhotoPng

\* C7: an entry whose name does not end in .jpg or .png is never opened for
\* decoding and never the source of an output file, also when it is sampled.
C7_OnlyImageSuffixes ==
    /\ \A i \in DOMAIN reads : HasImageSuffix(Basename(reads[i]))
    /\ \A i \in DOMAIN writes : HasImageSuffix(Basename(writes[i].src))
    /\ pc \in {"mkdir", "transform", "imwrite"} => HasImageSuffix(filename)

C7_Witness ==
    /\ pc = "done"
    /\ writes # <<>>
    /\ \E i \in DOMAIN listed :
          /\ PicJpeg \in listed[i].sample
          /\ AUG \in listed[i].sample

\* C8: a second run on the tree left by a completed first run raises no error
\* (other than a failure of the transform or of the encoder), and a write to
\* an output path that exists already replaces that file and creates neither
\* a file nor a directory.
C8_RerunWithoutError ==
    [][(run' >= 2 /\ prevDone') =>
          /\ error' \in {"none"} \cup EnvironmentErrors
          /\ (pc = "imwrite" /\ output_path \in DOMAIN files /\ writes' # writes) =>
                /\ DOMAIN files' = DOMAIN files
                /\ dirs' = dirs
                /\ files'[output_path].run = run]_vars

\* C9: every folder that is listed and sampled is the visited directory
\* joined with the subdirectory name, at any depth, and no listing fails
\* for a missing directory.
C9_ListsVisitedSubdirectory ==
    /\ \A i \in DOMAIN listed :
          listed[i].path = Join(listed[i].dirpath, listed[i].dirname)
    /\ error # "FileNotFoundError"

====
